---------------------------- MODULE Spec2Model ----------------------------
(***************************************************************************)
(* Price-alert monitoring subsystem of caster-backend.                     *)
(*                                                                         *)
(*   AlertCheckerService  (services/alertChecker)  the recurring checker   *)
(*   DatabaseService      (services/database)      the Alert Store         *)
(*   PolymarketService    (services/polymarket)    the price oracle        *)
(*   EmailService         (services/email)         the Notifier            *)
(*   /alerts routes       (src/index.ts)           external requests       *)
(*                                                                         *)
(* Prices are counted in hundredths (the unit the checker logs, in cents): *)
(* 50 stands for the JavaScript number 0.50.  Timestamps are clock ticks;  *)
(* 0 stands for a NULL timestamp column.                                   *)
(***************************************************************************)
EXTENDS Integers, Sequences, FiniteSets, TLC

(***************************************************************************)
(* Bounds of the model.                                                    *)
(***************************************************************************)
MaxAlerts == 2
MaxInFlight == 1
MaxTime == 2
MaxRequests == 1

(***************************************************************************)
(* Program constants.                                                      *)
(***************************************************************************)
POLL_INTERVAL == 30000

AlertIds == 1..MaxAlerts
CycleIds == 1..MaxInFlight
Times == 1..MaxTime

Wallets == {"w1", "w2", "w3"}
Markets == {"101", "102"}
Conditions == {"above", "below", "equals"}
Statuses == {"active", "triggered", "cancelled"}

\* what a row of the users table says about the owner's contact address:
\* no row, a row without email, an email not verified, a verified email
UserStates == {"none", "noemail", "unverified", "verified"}

(***************************************************************************)
(* IEEE-754 double arithmetic on hundredths.                               *)
(*                                                                         *)
(* target_price and current_price are JavaScript numbers: the double       *)
(* nearest to k/100.  For 2^e <= k/100 < 2^(e+1) the mantissa is           *)
(* round(k * 2^(52-e) / 100); with r = (k * 2^(52-e)) mod 100 the double   *)
(* exceeds k/100 by (100 - r) / (100 * 2^(52-e)) when r > 50 and falls     *)
(* short by r / (100 * 2^(52-e)) otherwise (r = 50 cannot occur).          *)
(* DoubleErr(k) is that signed error in units of 2^-59 / 100.              *)
(***************************************************************************)
RECURSIVE Pow2(_)
Pow2(n) == IF n = 0 THEN 1 ELSE 2 * Pow2(n - 1)

RECURSIVE Pow2Mod100(_)
Pow2Mod100(n) == IF n = 0 THEN 1 ELSE (2 * Pow2Mod100(n - 1)) % 100

\* number of doublings that bring k/100 into [1, 2): the negated exponent
RECURSIVE Halvings(_)
Halvings(k) == IF k >= 100 THEN 0 ELSE 1 + Halvings(2 * k)

DoubleErr(k) ==
  IF k = 0 THEN 0
  ELSE LET j == Halvings(k)
           r == (k * Pow2Mod100(52 + j)) % 100
       IN  (IF r > 50 THEN 100 - r ELSE 0 - r) * Pow2(7 - j)

\* the errors of all prices from 0.00 to 1.00, computed once
DoubleErrs == [k \in 0..100 |-> DoubleErr(k)]

\* Math.abs(a - b) <= 0.01 on doubles.  For |a - b| = 1 hundredth the
\* subtraction is exact (the difference is an integer below 2^53 in units
\* of 2^-59), so the comparison is decided by the rounding errors.
AbsDiffWithinTolerance(a, b) ==
  LET hi == IF a >= b THEN a ELSE b
      lo == IF a >= b THEN b ELSE a
  IN  IF hi - lo = 0 THEN TRUE
      ELSE IF hi - lo >= 2 THEN FALSE
      ELSE DoubleErrs[hi] - DoubleErrs[lo] <= DoubleErrs[1]

(***************************************************************************)
(* AlertCheckerService.shouldTriggerAlert                                  *)
(***************************************************************************)
\* (variant) the comparison of below is the wrong way round
shouldTriggerAlertBelowFlipped(alert, currentPrice) ==
  CASE alert.condition = "above" -> currentPrice >= alert.target_price
    [] alert.condition = "below" -> currentPrice >= alert.target_price
    [] alert.condition = "equals" ->
         AbsDiffWithinTolerance(currentPrice, alert.target_price)
    [] OTHER -> FALSE

\* (variant) a condition the switch does not know triggers
shouldTriggerAlertDefaultTrue(alert, currentPrice) ==
  CASE alert.condition = "above" -> currentPrice >= alert.target_price
    [] alert.condition = "below" -> currentPrice <= alert.target_price
    [] alert.condition = "equals" ->
         AbsDiffWithinTolerance(currentPrice, alert.target_price)
    [] OTHER -> TRUE

\* switch (alert.condition) with default: return false
shouldTriggerAlert(alert, currentPrice) ==
  CASE alert.condition = "above" -> currentPrice >= alert.target_price
    [] alert.condition = "below" -> currentPrice <= alert.target_price
    [] alert.condition = "equals" ->
         AbsDiffWithinTolerance(currentPrice, alert.target_price)
    [] OTHER -> FALSE

(***************************************************************************)
(* State.                                                                  *)
(***************************************************************************)
VARIABLES
  supabase,       \* DatabaseService.supabase: client configured, or null
  alerts,         \* price_alerts table: row id -> row
  nextId,         \* next id the table generates
  users,          \* users table, by wallet: the owner's contact state
  now,            \* Date.now(), in ticks
  isRunning,      \* AlertCheckerService.isRunning
  checkInterval,  \* AlertCheckerService.checkInterval is armed (not null)
  timers,         \* setInterval timers alive in the event loop
  cycles,         \* checkAlerts() invocations in flight, by slot
  requests,       \* PATCH and DELETE requests served so far
  last,           \* history: the call that returned last, and its outcome
  notified,       \* history: alerts sendPriceAlert was invoked for
  everTriggered,  \* history: alerts for which triggerAlert has updated
  probe,          \* argument and result of one shouldTriggerAlert call
  verifying,      \* GET /users/verify-email requests between their lookup
                  \* and their update: the token and the wallet found
  tokens          \* history: the verification tokens issued, in order, each
                  \* with its wallet and email and whether it was presented

vars == <<supabase, alerts, nextId, users, now, isRunning, checkInterval,
          timers, cycles, requests, last, notified, everTriggered, probe,
          verifying, tokens>>

NoProbe == [t |-> 0, c |-> 0, cond |-> "above", done |-> FALSE, out |-> FALSE]

\* a call that returned: which, to which cycle, about which alert, and how
Event(op, c, id, ok, trig) ==
  [op |-> op, c |-> c, id |-> id, ok |-> ok, trig |-> trig]
Request(op) == Event(op, 0, 0, TRUE, FALSE)

\* no market held: getMarketById has not returned one
NoReply == [found |-> FALSE, kind |-> "none", value |-> 0]

\* a free slot; pc = "idle"
IdleCycle ==
  [pc |-> "idle", groups |-> <<>>, gi |-> 0, ai |-> 0, reply |-> NoReply,
   price |-> 0, trig |-> FALSE, ts |-> 0, sent |-> 0, fetched |-> <<>>,
   trigBefore |-> {}]

Init ==
  /\ supabase \in BOOLEAN
  /\ alerts = <<>>
  /\ nextId = 1
  /\ users = [w \in Wallets |-> CASE w = "w1" -> "verified"
                                  [] w = "w2" -> "unverified"
                                  [] OTHER -> "noemail"]
  /\ now = 1
  /\ isRunning = FALSE
  /\ checkInterval = FALSE
  /\ timers = 0
  /\ cycles = [c \in CycleIds |-> IdleCycle]
  /\ requests = 0
  /\ last = Request("init")
  /\ notified = {}
  /\ everTriggered = {}
  /\ probe = NoProbe
  /\ verifying = {}
  /\ tokens = <<>>

(***************************************************************************)
(* DatabaseService (price_alerts, users)                                   *)
(***************************************************************************)
\* .update(updates): the named columns are overwritten, the others kept
ApplyUpdates(row, updates) ==
  [f \in DOMAIN row |-> IF f \in DOMAIN updates THEN updates[f] ELSE row[f]]

\* the CHECK constraints of price_alerts: a row violating one is refused
RowValid(row) ==
  /\ row.condition \in {"above", "below", "equals"}
  /\ row.status \in {"active", "triggered", "cancelled"}
  /\ row.target_price >= 0 /\ row.target_price <= 100

\* updateAlert: .update(updates).eq('id', alertId).select().single();
\* without a client, on an error, or with no such row, nothing is written
\* and null is returned (never thrown)
updateAlert(store, alertId, updates, ok) ==
  IF /\ supabase /\ ok /\ alertId \in DOMAIN store
     /\ RowValid(ApplyUpdates(store[alertId], updates))
  THEN [store EXCEPT ![alertId] = ApplyUpdates(store[alertId], updates)]
  ELSE store

\* (variant) the status filter is left out
ActiveRowsAnyStatus(store) == DOMAIN store

\* getActiveAlerts: .eq('status', 'active')
ActiveRows(store) == {a \in DOMAIN store : store[a].status = "active"}

\* .order('last_checked_at', { ascending: true, nullsFirst: true }): every
\* listing of the rows S in nondecreasing last_checked_at (ties in any order)
OrderedListings(store, S) ==
  {s \in [1..Cardinality(S) -> S] :
     /\ \A i, j \in 1..Cardinality(S) : i # j => s[i] # s[j]
     /\ \A i, j \in 1..Cardinality(S) :
          i < j => store[s[i]].last_checked_at <= store[s[j]].last_checked_at}

\* the columns of a row that the checker reads from its in-memory copy
Copy(row) ==
  [id |-> row.id, user_wallet |-> row.user_wallet, market_id |-> row.market_id,
   target_price |-> row.target_price, condition |-> row.condition,
   status |-> row.status]

\* (variant) a failed query still delivers rows
getActiveAlertsNoFallback(store, ok) ==
  {[i \in DOMAIN s |-> Copy(store[s[i]])] :
     s \in OrderedListings(store, ActiveRows(store))}

\* getActiveAlerts: the possible results; [] without a client or on error
getActiveAlerts(store, ok) ==
  IF supabase /\ ok
  THEN {[i \in DOMAIN s |-> Copy(store[s[i]])] :
          s \in OrderedListings(store, ActiveRows(store))}
  ELSE {<<>>}

\* getUserByWallet: the row, or null on error; without a client a mock user
\* that has no email
getUserByWallet(wallet, ok) ==
  IF ~supabase THEN "noemail"
  ELSE IF ok THEN users[wallet] ELSE "none"

(***************************************************************************)
(* PolymarketService.getMarketById / transformMarket                       *)
(*                                                                         *)
(* A reply of the market API: the request fails (getMarketById catches and *)
(* returns null), or it carries a market whose first outcome price is      *)
(* absent or unparsable ("none"), a number, or a numeric string.           *)
(***************************************************************************)
OraclePrices == {49, 50, 51}

OracleReplies ==
  {[found |-> FALSE, kind |-> "none", value |-> 0],
   [found |-> TRUE, kind |-> "none", value |-> 0],
   [found |-> TRUE, kind |-> "number", value |-> 0],
   [found |-> TRUE, kind |-> "string", value |-> 0]}
  \cup {[found |-> TRUE, kind |-> "string", value |-> p] : p \in OraclePrices}

\* (variant) the null check of checkMarketAlerts is left out
MarketFoundAlways(reply) == TRUE

\* getMarketById returns a market (not null)
MarketFound(reply) == reply.found

\* (variant) the first outcome price is used as it is, with no fallback
transformMarketNoFallback(reply) == reply.value

\* transformMarket: currentPrice = outcomePrices[0] || 0.5; undefined and
\* the number 0 are falsy, the string "0" is not
transformMarket(reply) ==
  IF reply.kind = "none" THEN 50
  ELSE IF reply.kind = "number" /\ reply.value = 0 THEN 50
  ELSE reply.value

(***************************************************************************)
(* AlertCheckerService.groupAlertsByMarket                                 *)
(***************************************************************************)
\* keys for which acc[key] is inherited from Object.prototype: the group
\* is never initialised and acc[key].push throws a TypeError
PrototypeKeys == {"__proto__"}

\* market ids that are canonical array indices, with their numeric value
KeyNumber == [m \in {"101", "102"} |-> IF m = "101" THEN 101 ELSE 102]

groupThrows(list) == \E i \in DOMAIN list : list[i].market_id \in PrototypeKeys

FirstIndex(list, k) ==
  CHOOSE i \in DOMAIN list :
    /\ list[i].market_id = k
    /\ \A j \in DOMAIN list : list[j].market_id = k => i <= j

\* Object.entries order: integer keys ascending, then the others by insertion
EntryBefore(list, k1, k2) ==
  IF k1 \in DOMAIN KeyNumber
  THEN (k2 \in DOMAIN KeyNumber => KeyNumber[k1] < KeyNumber[k2])
  ELSE k2 \notin DOMAIN KeyNumber /\ FirstIndex(list, k1) < FirstIndex(list, k2)

\* (variant) every alert is put in a group of its own
groupAlertsOneByOne(list) ==
  [g \in DOMAIN list |-> [market_id |-> list[g].market_id, alerts |-> <<list[g]>>]]

groupAlertsByMarket(list) ==
  LET keys == {list[i].market_id : i \in DOMAIN list}
      n == Cardinality(keys)
      order == CHOOSE s \in [1..n -> keys] :
                 \A i, j \in 1..n : i < j => EntryBefore(list, s[i], s[j])
  IN  [g \in 1..n |->
         [market_id |-> order[g],
          alerts |-> SelectSeq(list, LAMBDA r : r.market_id = order[g])]]

(***************************************************************************)
(* AlertCheckerService: the steps of one checkAlerts() invocation.         *)
(* A cycle is suspended at an await; pc names the call it awaits:          *)
(*   "load"    databaseService.getActiveAlerts()                           *)
(*   "fetch"   polymarketService.getMarketById(marketId)                   *)
(*   "update"  databaseService.updateAlert(alert.id, ...)                  *)
(*   "lookup"  databaseService.getUserByWallet(alert.user_wallet)          *)
(*   "notify"  emailService.sendPriceAlert(user.email, ...)                *)
(* When checkAlerts() returns, the slot is free again (pc = "idle").        *)
(* fetched lists the market ids of the getMarketById calls that returned.  *)
(* sent is the currentPrice handed to sendPriceAlert while it is awaited.  *)
(* reply is the market getMarketById returned for the current group.       *)
(***************************************************************************)
CurrentGroup(cy) == cy.groups[cy.gi]
CurrentAlert(cy) == cy.groups[cy.gi].alerts[cy.ai]

\* (variant) the notification_sent flag is left out
TriggerUpdatesNoFlag(t) ==
  [status |-> "triggered", triggered_at |-> t, last_checked_at |-> t]

\* triggerAlert: the update it issues
TriggerUpdates(t) ==
  [status |-> "triggered", triggered_at |-> t, last_checked_at |-> t,
   notification_sent |-> TRUE]

\* (variant) the flag is written on every check
CheckedUpdatesWithFlag(t) == [last_checked_at |-> t, notification_sent |-> TRUE]

\* checkMarketAlerts, not triggered: the update it issues
CheckedUpdates(t) == [last_checked_at |-> t]

\* (variant) a triggered alert goes to the owner lookup before its update
EvaluateLookupFirst(cy, t) ==
  [cy EXCEPT !.pc = IF shouldTriggerAlert(CurrentAlert(cy), cy.price)
                    THEN "lookup" ELSE "update",
             !.trig = shouldTriggerAlert(CurrentAlert(cy), cy.price),
             !.ts = t, !.sent = 0]

\* checkMarketAlerts: evaluate the current alert and issue its update, with
\* new Date() taken at the call
Evaluate(cy, t) ==
  [cy EXCEPT !.pc = "update",
             !.trig = shouldTriggerAlert(CurrentAlert(cy), cy.price),
             !.ts = t, !.sent = 0]

\* checkAlerts: for (const [marketId, alerts] of Object.entries(...));
\* after the last group checkAlerts returns
NextGroup(cy) ==
  IF cy.gi < Len(cy.groups)
  THEN [cy EXCEPT !.pc = "fetch", !.gi = cy.gi + 1, !.ai = 0,
                  !.reply = NoReply, !.price = 0,
                  !.trig = FALSE, !.ts = 0, !.sent = 0]
  ELSE IdleCycle

\* checkMarketAlerts: for (const alert of alerts)
NextAlert(cy, t) ==
  IF cy.ai < Len(CurrentGroup(cy).alerts)
  THEN Evaluate([cy EXCEPT !.ai = cy.ai + 1], t)
  ELSE NextGroup(cy)

FreeSlots == {c \in DOMAIN cycles : cycles[c].pc = "idle"}

LowestFree == CHOOSE c \in FreeSlots : \A d \in FreeSlots : c <= d

\* this.checkAlerts() is called (not awaited): it runs up to its first await
Spawn(c) ==
  cycles' = [cycles EXCEPT ![c] =
               [IdleCycle EXCEPT !.pc = "load", !.trigBefore = everTriggered]]

\* (variant) the isRunning check is left out
startUnguarded ==
  /\ last' = Request("start")
  /\ FreeSlots # {}
  /\ isRunning' = TRUE
  /\ Spawn(LowestFree)
  /\ checkInterval' = TRUE
  /\ timers' = timers + 1
  /\ UNCHANGED <<supabase, alerts, nextId, users, now, requests, notified,
                 everTriggered, probe,
                 verifying, tokens>>

\* AlertCheckerService.start: returns at once when already running;
\* otherwise calls checkAlerts() and arms the interval timer
start ==
  /\ last' = Request("start")
  /\ IF isRunning
     THEN UNCHANGED <<isRunning, checkInterval, timers, cycles>>
     ELSE /\ FreeSlots # {}
          /\ isRunning' = TRUE
          /\ Spawn(LowestFree)
          /\ checkInterval' = TRUE
          /\ timers' = timers + 1
  /\ UNCHANGED <<supabase, alerts, nextId, users, now, requests, notified,
                 everTriggered, probe,
                 verifying, tokens>>

\* (variant) the timer is not cleared
stopLeavesTimer ==
  /\ checkInterval' = FALSE
  /\ isRunning' = FALSE
  /\ last' = Request("stop")
  /\ UNCHANGED <<supabase, alerts, nextId, users, now, timers, cycles, requests,
                 notified, everTriggered, probe,
                 verifying, tokens>>

\* (variant) isRunning is not reset
stopKeepsRunning ==
  /\ IF checkInterval
     THEN checkInterval' = FALSE /\ timers' = timers - 1
     ELSE UNCHANGED <<checkInterval, timers>>
  /\ last' = Request("stop")
  /\ UNCHANGED <<supabase, alerts, nextId, users, now, isRunning, cycles,
                 requests, notified, everTriggered, probe,
                 verifying, tokens>>

\* (variant) the cycles in flight are dropped
stopAbortsCycles ==
  /\ IF checkInterval
     THEN checkInterval' = FALSE /\ timers' = timers - 1
     ELSE UNCHANGED <<checkInterval, timers>>
  /\ isRunning' = FALSE
  /\ cycles' = [c \in DOMAIN cycles |-> IdleCycle]
  /\ last' = Request("stop")
  /\ UNCHANGED <<supabase, alerts, nextId, users, now, requests, notified,
                 everTriggered, probe, verifying, tokens>>

\* AlertCheckerService.stop: clearInterval on the handle held, if any
stop ==
  /\ IF checkInterval
     THEN checkInterval' = FALSE /\ timers' = timers - 1
     ELSE UNCHANGED <<checkInterval, timers>>
  /\ isRunning' = FALSE
  /\ last' = Request("stop")
  /\ UNCHANGED <<supabase, alerts, nextId, users, now, cycles, requests, notified,
                 everTriggered, probe,
                 verifying, tokens>>

\* AlertCheckerService.getStatus
getStatus == [running |-> isRunning, interval |-> POLL_INTERVAL]

\* the setInterval callback of start
TimerFire ==
  /\ timers > 0
  /\ FreeSlots # {}
  /\ Spawn(LowestFree)
  /\ last' = Request("timer")
  /\ UNCHANGED <<supabase, alerts, nextId, users, now, isRunning,
                 checkInterval, timers, requests, notified, everTriggered, probe,
                 verifying, tokens>>

\* (variant) a cycle that fails to load stops the checker
LoadStopsOnError(c) ==
  /\ cycles[c].pc = "load"
  /\ \E ok \in BOOLEAN : \E list \in getActiveAlerts(alerts, ok) :
       /\ last' = Event("load", c, 0, supabase /\ ok, FALSE)
       /\ IF Len(list) = 0 \/ groupThrows(list)
          THEN cycles' = [cycles EXCEPT ![c] = IdleCycle]
          ELSE cycles' = [cycles EXCEPT ![c] =
                 [@ EXCEPT !.pc = "fetch", !.gi = 1,
                           !.groups = groupAlertsByMarket(list)]]
       /\ IF supabase /\ ok
          THEN UNCHANGED <<isRunning, checkInterval, timers>>
          ELSE isRunning' = FALSE /\ checkInterval' = FALSE /\ timers' = 0
  /\ UNCHANGED <<supabase, alerts, nextId, users, now, requests, notified,
                 everTriggered, probe,
                 verifying, tokens>>

\* checkAlerts: getActiveAlerts() returns.  An empty list ends the cycle
\* (the throttled "No active alerts" log line is not modelled); a throw of
\* groupAlertsByMarket is caught by checkAlerts, which then returns.
Load(c) ==
  /\ cycles[c].pc = "load"
  /\ \E ok \in BOOLEAN : \E list \in getActiveAlerts(alerts, ok) :
       /\ last' = Event("load", c, 0, supabase /\ ok, FALSE)
       /\ IF Len(list) = 0 \/ groupThrows(list)
          THEN cycles' = [cycles EXCEPT ![c] = IdleCycle]
          ELSE cycles' = [cycles EXCEPT ![c] =
                 [@ EXCEPT !.pc = "fetch", !.gi = 1,
                           !.groups = groupAlertsByMarket(list)]]
  /\ UNCHANGED <<supabase, alerts, nextId, users, now, isRunning,
                 checkInterval, timers, requests, notified, everTriggered, probe,
                 verifying, tokens>>

\* checkMarketAlerts: getMarketById() returns
Fetch(c) ==
  /\ cycles[c].pc = "fetch"
  /\ \E reply \in OracleReplies :
       LET cy == [cycles[c] EXCEPT
                   !.fetched = Append(@, CurrentGroup(cycles[c]).market_id)]
       IN
       /\ last' = Event("fetch", c, 0, reply.found, FALSE)
       /\ IF ~MarketFound(reply)
          THEN cycles' = [cycles EXCEPT ![c] = NextGroup(cy)]
          ELSE cycles' = [cycles EXCEPT ![c] =
                 Evaluate([cy EXCEPT !.reply = reply,
                                     !.price = transformMarket(reply),
                                     !.ai = 1], now)]
  /\ UNCHANGED <<supabase, alerts, nextId, users, now, isRunning,
                 checkInterval, timers, requests, notified, everTriggered, probe,
                 verifying, tokens>>

\* checkMarketAlerts / triggerAlert: updateAlert() returns; its result is
\* not inspected
Update(c) ==
  /\ cycles[c].pc = "update"
  /\ \E ok \in BOOLEAN :
       LET cy == cycles[c]
           id == CurrentAlert(cy).id
       IN  /\ alerts' = updateAlert(alerts, id,
                          IF cy.trig THEN TriggerUpdates(cy.ts)
                                     ELSE CheckedUpdates(cy.ts), ok)
           /\ last' = Event("update", c, id,
                            supabase /\ ok /\ id \in DOMAIN alerts, cy.trig)
           /\ IF cy.trig
              THEN /\ cycles' = [cycles EXCEPT ![c].pc = "lookup"]
                   /\ everTriggered' = everTriggered \cup {id}
              ELSE /\ cycles' = [cycles EXCEPT ![c] = NextAlert(cy, now)]
                   /\ UNCHANGED everTriggered
  /\ UNCHANGED <<supabase, nextId, users, now, isRunning, checkInterval, timers,
                 requests, notified, probe,
                 verifying, tokens>>

\* (variant) the email_verified check is left out
CanNotifyUnverified(user) == user # "none" /\ user # "noemail"

\* sendNotification: user, user.email and user.email_verified are all set
CanNotify(user) == user # "none" /\ user # "noemail" /\ user # "unverified"

\* (variant) the target price is handed over as the current price
sendPriceArgTarget(cy) == CurrentAlert(cy).target_price

\* sendNotification: the currentPrice it hands to sendPriceAlert is the
\* price checkMarketAlerts read from the market
sendPriceArg(cy) == cy.price

\* sendNotification: getUserByWallet() returns
Lookup(c) ==
  /\ cycles[c].pc = "lookup"
  /\ \E ok \in BOOLEAN :
       LET cy == cycles[c]
           id == CurrentAlert(cy).id
           user == getUserByWallet(CurrentAlert(cy).user_wallet, ok)
       IN  /\ last' = Event("lookup", c, id, user = "verified", TRUE)
           /\ IF CanNotify(user)
              THEN /\ cycles' = [cycles EXCEPT ![c].pc = "notify",
                                                ![c].sent = sendPriceArg(cy)]
                   /\ notified' = notified \cup {id}
              ELSE /\ cycles' = [cycles EXCEPT ![c] = NextAlert(cy, now)]
                   /\ UNCHANGED notified
  /\ UNCHANGED <<supabase, alerts, nextId, users, now, isRunning,
                 checkInterval, timers, requests, everTriggered, probe,
                 verifying, tokens>>

\* (variant) a failed send is tried again
afterSendRetry(emailSent) == IF emailSent THEN "next" ELSE "retry"

\* sendNotification after sendPriceAlert: both outcomes are only logged
afterSend(emailSent) == "next"

\* sendNotification: sendPriceAlert() returns (false on any failure)
Notify(c) ==
  /\ cycles[c].pc = "notify"
  /\ \E emailSent \in BOOLEAN :
       LET cy == cycles[c]
           id == CurrentAlert(cy).id
       IN  /\ last' = Event("send", c, id, emailSent, TRUE)
           /\ IF afterSend(emailSent) = "next"
              THEN cycles' = [cycles EXCEPT ![c] = NextAlert(cy, now)]
              ELSE UNCHANGED cycles
  /\ UNCHANGED <<supabase, alerts, nextId, users, now, isRunning,
                 checkInterval, timers, requests, notified, everTriggered, probe,
                 verifying, tokens>>

\* time passes
Tick ==
  /\ now < MaxTime
  /\ now' = now + 1
  /\ last' = Request("tick")
  /\ UNCHANGED <<supabase, alerts, nextId, users, isRunning, checkInterval, timers,
                 cycles, requests, notified, everTriggered, probe,
                 verifying, tokens>>

(***************************************************************************)
(* The /alerts routes of src/index.ts                                      *)
(***************************************************************************)
\* request bodies of POST /alerts
AlertBodies ==
  {[user_wallet |-> "w1", market_id |-> "101", target_price |-> 50,
    condition |-> "above", notes |-> "n"],
   [user_wallet |-> "w2", market_id |-> "101", target_price |-> 50,
    condition |-> "below", notes |-> "n"],
   [user_wallet |-> "w3", market_id |-> "102", target_price |-> 50,
    condition |-> "equals", notes |-> "n"]}

\* POST /alerts: validation of the body
ValidAlertBody(body) ==
  /\ ~(body.target_price < 0 \/ body.target_price > 100)
  /\ body.condition \in {"above", "below", "equals"}

\* (variant) the row is inserted with the flag set
NewRowFlagged(id, body) ==
  [id |-> id, user_wallet |-> body.user_wallet, market_id |-> body.market_id,
   target_price |-> body.target_price, condition |-> body.condition,
   status |-> "active", triggered_at |-> 0, last_checked_at |-> 0,
   notification_sent |-> TRUE, notes |-> body.notes]

\* the row createAlert inserts: status active, notification_sent false,
\* triggered_at and last_checked_at NULL
NewRow(id, body) ==
  [id |-> id, user_wallet |-> body.user_wallet, market_id |-> body.market_id,
   target_price |-> body.target_price, condition |-> body.condition,
   status |-> "active", triggered_at |-> 0, last_checked_at |-> 0,
   notification_sent |-> FALSE, notes |-> body.notes]

\* POST /alerts, databaseService.createAlert
PostAlert ==
  /\ supabase
  /\ nextId <= MaxAlerts
  /\ \E body \in AlertBodies :
       /\ ValidAlertBody(body)
       /\ alerts' = alerts @@ (nextId :> NewRow(nextId, body))
  /\ nextId' = nextId + 1
  /\ last' = Request("post")
  /\ UNCHANGED <<supabase, users, now, isRunning, checkInterval, timers, cycles,
                 requests, notified, everTriggered, probe,
                 verifying, tokens>>

\* request bodies of PATCH /alerts/:alertId
PatchBodies == {[status |-> "cancelled"], [status |-> "active"]}

\* PATCH /alerts/:alertId: updateAlert(alertId, req.body)
PatchAlert ==
  /\ requests < MaxRequests
  /\ requests' = requests + 1
  /\ \E a \in DOMAIN alerts, updates \in PatchBodies :
       /\ alerts' = updateAlert(alerts, a, updates, TRUE)
       /\ alerts' # alerts
  /\ last' = Request("patch")
  /\ UNCHANGED <<supabase, nextId, users, now, isRunning, checkInterval, timers,
                 cycles, notified, everTriggered, probe,
                 verifying, tokens>>

\* DELETE /alerts/:alertId: databaseService.deleteAlert
DeleteAlert ==
  /\ supabase
  /\ requests < MaxRequests
  /\ requests' = requests + 1
  /\ \E a \in DOMAIN alerts :
       alerts' = [x \in DOMAIN alerts \ {a} |-> alerts[x]]
  /\ last' = Request("delete")
  /\ UNCHANGED <<supabase, nextId, users, now, isRunning, checkInterval, timers,
                 cycles, notified, everTriggered, probe,
                 verifying, tokens>>

Next ==
  \/ start
  \/ stop
  \/ TimerFire
  \/ \E c \in CycleIds : Load(c)
  \/ \E c \in CycleIds : Fetch(c)
  \/ \E c \in CycleIds : Update(c)
  \/ \E c \in CycleIds : Lookup(c)
  \/ \E c \in CycleIds : Notify(c)
  \/ Tick
  \/ PostAlert
  \/ PatchAlert
  \/ DeleteAlert

Spec == Init /\ [][Next]_vars

(***************************************************************************)
(* shouldTriggerAlert on its own: one call for every target price, current *)
(* price and condition.                                                    *)
(***************************************************************************)
PriceGrid == 0..100

\* the condition is a string at run time: the three the switch knows, and
\* two it does not
AnyConditions == Conditions \cup {"over", ""}

InitEval ==
  /\ supabase = TRUE
  /\ alerts = <<>>
  /\ nextId = 1
  /\ users = [w \in Wallets |-> "none"]
  /\ now = 1
  /\ isRunning = FALSE
  /\ checkInterval = FALSE
  /\ timers = 0
  /\ cycles = [c \in CycleIds |-> IdleCycle]
  /\ requests = 0
  /\ last = Request("init")
  /\ notified = {}
  /\ everTriggered = {}
  /\ probe \in [t : PriceGrid, c : PriceGrid, cond : AnyConditions,
                 done : {FALSE}, out : {FALSE}]
  /\ verifying = {}
  /\ tokens = <<>>

EvalAlert ==
  /\ ~probe.done
  /\ probe' = [probe EXCEPT
       !.done = TRUE,
       !.out = shouldTriggerAlert(
                 [target_price |-> probe.t, condition |-> probe.cond], probe.c)]
  /\ UNCHANGED <<supabase, alerts, nextId, users, now, isRunning,
                 checkInterval, timers, cycles, requests, last, notified,
                 everTriggered, verifying, tokens>>

NextEval == EvalAlert

SpecEval == InitEval /\ [][NextEval]_vars

(***************************************************************************)
(* The routes on their own, for request bodies of any content: a field may *)
(* be missing (""), the target price out of range, the condition unknown.  *)
(***************************************************************************)
AnyBodies ==
  [user_wallet : {"w1"}, market_id : {"101", ""},
   target_price : {0 - 1, 0, 50, 100, 101},
   condition : {"above", "equals", "over", ""}, notes : {"n"}]

\* POST /alerts: the required fields are present
HasRequiredFields(body) ==
  body.user_wallet # "" /\ body.market_id # "" /\ body.condition # ""

\* databaseService.createAlert: without a client a mock alert is returned
\* and nothing is stored; an insert that fails or is refused returns null
createAlert(store, id, body, ok) ==
  IF supabase /\ ok /\ RowValid(NewRow(id, body))
  THEN store @@ (id :> NewRow(id, body))
  ELSE store

\* POST /alerts: 400 for a missing field, a target price outside [0, 1] or
\* an unknown condition; otherwise createAlert, and 500 when it returns null
PostAnyAlert ==
  /\ nextId <= MaxAlerts
  /\ \E body \in AnyBodies, ok \in BOOLEAN :
       LET accepted == HasRequiredFields(body) /\ ValidAlertBody(body)
           stored == IF accepted THEN createAlert(alerts, nextId, body, ok)
                                 ELSE alerts
       IN  /\ alerts' = stored
           /\ nextId' = IF stored # alerts THEN nextId + 1 ELSE nextId
           /\ last' = Event("post", 0, IF stored # alerts THEN nextId ELSE 0,
                            accepted /\ (~supabase \/ stored # alerts), FALSE)
  /\ UNCHANGED <<supabase, users, now, isRunning, checkInterval, timers, cycles,
                 requests, notified, everTriggered, probe,
                 verifying, tokens>>

AnyPatchBodies ==
  {[status |-> "cancelled"], [status |-> "paused"], [target_price |-> 60],
   [target_price |-> 150], [condition |-> "over"]}

\* PATCH /alerts/:alertId for any body
PatchAnyAlert ==
  /\ requests < MaxRequests
  /\ requests' = requests + 1
  /\ \E a \in DOMAIN alerts, updates \in AnyPatchBodies :
       /\ alerts' = updateAlert(alerts, a, updates, TRUE)
       /\ last' = Event("patch", 0, a, alerts' # alerts, FALSE)
  /\ UNCHANGED <<supabase, nextId, users, now, isRunning, checkInterval, timers,
                 cycles, notified, everTriggered, probe,
                 verifying, tokens>>

NextPost ==
  \/ PostAnyAlert
  \/ PatchAnyAlert

SpecPost == Init /\ [][NextPost]_vars

(***************************************************************************)
(* The checker over a store that already holds alerts when the process     *)
(* starts: two rows created earlier through POST /alerts, among them rows  *)
(* of one market with targets 0.40 and 0.90 and a row whose market_id is   *)
(* the string "__proto__".                                                 *)
(***************************************************************************)
StoredBodies ==
  {[user_wallet |-> "w1", market_id |-> "101", target_price |-> 40,
    condition |-> "above", notes |-> "n"],
   [user_wallet |-> "w2", market_id |-> "101", target_price |-> 90,
    condition |-> "below", notes |-> "n"],
   [user_wallet |-> "w3", market_id |-> "102", target_price |-> 50,
    condition |-> "equals", notes |-> "n"],
   [user_wallet |-> "w1", market_id |-> "__proto__", target_price |-> 50,
    condition |-> "above", notes |-> "n"]}

InitStore ==
  /\ supabase = TRUE
  /\ \E b1, b2 \in StoredBodies :
       alerts = (1 :> NewRow(1, b1)) @@ (2 :> NewRow(2, b2))
  /\ nextId = 3
  /\ users = [w \in Wallets |-> CASE w = "w1" -> "verified"
                                  [] w = "w2" -> "unverified"
                                  [] OTHER -> "noemail"]
  /\ now = 1
  /\ isRunning = FALSE
  /\ checkInterval = FALSE
  /\ timers = 0
  /\ cycles = [c \in CycleIds |-> IdleCycle]
  /\ requests = 0
  /\ last = Request("init")
  /\ notified = {}
  /\ everTriggered = {}
  /\ probe = NoProbe
  /\ verifying = {}
  /\ tokens = <<>>

NextStore ==
  \/ start
  \/ stop
  \/ TimerFire
  \/ \E c \in CycleIds : Load(c)
  \/ \E c \in CycleIds : Fetch(c)
  \/ \E c \in CycleIds : Update(c)
  \/ \E c \in CycleIds : Lookup(c)
  \/ \E c \in CycleIds : Notify(c)

SpecStore == InitStore /\ [][NextStore]_vars

\* the interval timer fires while it is armed, and every call a cycle
\* awaits returns
SpecLive ==
  /\ SpecStore
  /\ WF_vars(TimerFire)
  /\ \A c \in CycleIds :
       WF_vars(Load(c) \/ Fetch(c) \/ Update(c) \/ Lookup(c) \/ Notify(c))

(***************************************************************************)
(* groupAlertsByMarket alone, on every list of up to MaxListLen alerts     *)
(* over four market ids.  probe holds the argument and the outcome.        *)
(***************************************************************************)
MaxListLen == 3

GroupMarkets == {"101", "102", "abc", "__proto__"}

GroupLists ==
  UNION {[1..n -> GroupMarkets] : n \in 0..MaxListLen}

InitGroup ==
  /\ supabase = TRUE
  /\ alerts = <<>>
  /\ nextId = 1
  /\ users = [w \in Wallets |-> "none"]
  /\ now = 1
  /\ isRunning = FALSE
  /\ checkInterval = FALSE
  /\ timers = 0
  /\ cycles = [c \in CycleIds |-> IdleCycle]
  /\ requests = 0
  /\ last = Request("init")
  /\ notified = {}
  /\ everTriggered = {}
  /\ \E ms \in GroupLists :
       probe = [list |-> [i \in DOMAIN ms |-> [id |-> i, market_id |-> ms[i]]],
                done |-> FALSE, threw |-> FALSE, groups |-> <<>>]
  /\ verifying = {}
  /\ tokens = <<>>

\* one call of groupAlertsByMarket(probe.list); a throw leaves no result
GroupAlerts ==
  /\ ~probe.done
  /\ probe' = [probe EXCEPT
       !.done = TRUE,
       !.threw = groupThrows(probe.list),
       !.groups = IF groupThrows(probe.list)
                  THEN <<>>
                  ELSE groupAlertsByMarket(probe.list)]
  /\ UNCHANGED <<supabase, alerts, nextId, users, now, isRunning,
                 checkInterval, timers, cycles, requests, last, notified,
                 everTriggered, verifying, tokens>>

NextGroupProbe == GroupAlerts

SpecGroup == InitGroup /\ [][NextGroupProbe]_vars

(***************************************************************************)
(* The email routes of src/index.ts on the users table.  Here users maps a *)
(* wallet to its row's email columns, with row = FALSE while the table has *)
(* no row for it; a token is the number of the randomUUID() call that made *)
(* it, and 0 stands for null.                                              *)
(* PATCH /users/:walletAddress/email changes the row in one updateUser     *)
(* call; GET /users/verify-email reads the row by token, and then, in a    *)
(* second call, updates the row of the wallet it found.                    *)
(***************************************************************************)
MaxTokens == 2

Emails == {"a@x.io", "b@x.io", "nobody", ""}

\* !email || !email.includes('@')
EmailRejected == [e \in Emails |-> e \in {"nobody", ""}]

\* createUser: a row with no email
NewUser ==
  [row |-> TRUE, email |-> "", email_verified |-> FALSE,
   email_verification_token |-> 0]

NoUser == [NewUser EXCEPT !.row = FALSE]

InitUsers ==
  /\ supabase = TRUE
  /\ alerts = <<>>
  /\ nextId = 1
  /\ users = [w \in Wallets |-> NoUser]
  /\ now = 1
  /\ isRunning = FALSE
  /\ checkInterval = FALSE
  /\ timers = 0
  /\ cycles = [c \in CycleIds |-> IdleCycle]
  /\ requests = 0
  /\ last = Request("init")
  /\ notified = {}
  /\ everTriggered = {}
  /\ probe = NoProbe
  /\ verifying = {}
  /\ tokens = <<>>

\* DatabaseService.updateUser: .update(updates).eq('wallet_address', ...);
\* the row is found by the wallet alone
updateUser(table, wallet, updates, ok) ==
  IF ok /\ table[wallet].row
  THEN [table EXCEPT ![wallet] = ApplyUpdates(@, updates)]
  ELSE table

\* DatabaseService.getUserByEmailVerificationToken: the wallets whose row
\* holds the token (maybeSingle: one row or null)
getUserByEmailVerificationToken(table, token, ok) ==
  IF ok
  THEN {w \in DOMAIN table :
          table[w].row /\ table[w].email_verification_token = token}
  ELSE {}

\* PATCH /users/:walletAddress/email
PatchEmail ==
  /\ Len(tokens) < MaxTokens
  /\ \E w \in Wallets, email \in Emails, created \in BOOLEAN, ok \in BOOLEAN :
       LET token == Len(tokens) + 1
           table == IF ~users[w].row /\ created
                    THEN [users EXCEPT ![w] = NewUser]
                    ELSE users
       IN  IF EmailRejected[email]
           THEN UNCHANGED <<users, tokens>>
           ELSE IF ~table[w].row
           THEN UNCHANGED <<users, tokens>>
           ELSE /\ users' = updateUser(table, w,
                               [email |-> email, email_verified |-> FALSE,
                                email_verification_token |-> token], ok)
                /\ tokens' = IF ok
                             THEN Append(tokens, [wallet |-> w, email |-> email,
                                                  presented |-> FALSE])
                             ELSE tokens
  /\ last' = Request("patchEmail")
  /\ UNCHANGED <<supabase, alerts, nextId, now, isRunning, checkInterval,
                 timers, cycles, requests, notified, everTriggered, probe,
                 verifying>>

\* GET /users/verify-email up to its first await returning: the row is
\* looked up by the token of the query string
VerifyLookup ==
  /\ \E token \in 1..Len(tokens), ok \in BOOLEAN :
       /\ verifying' = verifying \cup
            {[token |-> token, wallet |-> w] :
               w \in getUserByEmailVerificationToken(users, token, ok)}
       /\ tokens' = [tokens EXCEPT ![token].presented = TRUE]
  /\ last' = Request("verifyLookup")
  /\ UNCHANGED <<supabase, alerts, nextId, users, now, isRunning,
                 checkInterval, timers, cycles, requests, notified,
                 everTriggered, probe>>

\* GET /users/verify-email from there: the row of the wallet found is
\* marked verified and its token cleared
VerifyUpdate ==
  /\ \E v \in verifying, ok \in BOOLEAN :
       /\ users' = updateUser(users, v.wallet,
                      [email_verified |-> TRUE, email_verification_token |-> 0],
                      ok)
       /\ verifying' = verifying \ {v}
  /\ last' = Request("verifyUpdate")
  /\ UNCHANGED <<supabase, alerts, nextId, now, isRunning, checkInterval,
                 timers, cycles, requests, notified, everTriggered, probe,
                 tokens>>

NextUsers ==
  \/ PatchEmail
  \/ VerifyLookup
  \/ VerifyUpdate

SpecUsers == InitUsers /\ [][NextUsers]_vars

(***************************************************************************)
(* The checker with room for one more cycle than the interval timer alone  *)
(* needs: neither start() nor the setInterval callback looks at whether an *)
(* earlier checkAlerts() has returned.                                     *)
(***************************************************************************)
OverlapIds == 1..(MaxInFlight + 1)

InitOverlap ==
  /\ supabase = TRUE
  /\ \E b1 \in StoredBodies : alerts = (1 :> NewRow(1, b1))
  /\ nextId = 2
  /\ users = [w \in Wallets |-> CASE w = "w1" -> "verified"
                                  [] w = "w2" -> "unverified"
                                  [] OTHER -> "noemail"]
  /\ now = 1
  /\ isRunning = FALSE
  /\ checkInterval = FALSE
  /\ timers = 0
  /\ cycles = [c \in OverlapIds |-> IdleCycle]
  /\ requests = 0
  /\ last = Request("init")
  /\ notified = {}
  /\ everTriggered = {}
  /\ probe = NoProbe
  /\ verifying = {}
  /\ tokens = <<>>

NextOverlap ==
  \/ start
  \/ stop
  \/ TimerFire
  \/ \E c \in OverlapIds : Load(c)
  \/ \E c \in OverlapIds : Fetch(c)
  \/ \E c \in OverlapIds : Update(c)
  \/ \E c \in OverlapIds : Lookup(c)
  \/ \E c \in OverlapIds : Notify(c)

SpecOverlap == InitOverlap /\ [][NextOverlap]_vars

(***************************************************************************)
(* Properties.                                                             *)
(***************************************************************************)
\* the step being taken is the return of call op to cycle c
StepBy(c, op) == last'.op = op /\ last'.c = c

\* the ids of the alerts a cycle holds copies of
LoadedIds(cy) ==
  UNION {{cy.groups[g].alerts[i].id : i \in DOMAIN cy.groups[g].alerts} :
           g \in DOMAIN cy.groups}

\* cycle c goes on after the alert it was handling: to the next alert of
\* the group, to the next group, or to its end
MovesOn(c) ==
  /\ cycles'[c].pc \in {"update", "fetch", "idle"}
  /\ cycles'[c].pc = "update" =>
       /\ cycles'[c].gi = cycles[c].gi
       /\ cycles'[c].ai = cycles[c].ai + 1
       /\ cycles'[c].groups = cycles[c].groups
  /\ cycles'[c].pc = "fetch" =>
       /\ cycles'[c].gi = cycles[c].gi + 1
       /\ cycles'[c].groups = cycles[c].groups
  /\ cycles'[c].pc = "idle" => cycles[c].gi = Len(cycles[c].groups)

AbsDiff(a, b) == IF a >= b THEN a - b ELSE b - a

\* C1: no alert produces a duplicate notification: the Notifier is never
\* invoked for an alert it was already invoked for.
C1_NoDuplicateNotification ==
  [][\A c \in DOMAIN cycles :
       (cycles[c].pc = "lookup" /\ cycles'[c].pc = "notify")
         => CurrentAlert(cycles[c]).id \notin notified]_vars

\* C2: the status of an alert only changes from active to triggered or from
\* active to cancelled; triggered and cancelled are never left.
C2_StatusOnlyLeavesActive ==
  [][\A a \in DOMAIN alerts \cap DOMAIN alerts' :
       alerts'[a].status # alerts[a].status
         => /\ alerts[a].status = "active"
            /\ alerts'[a].status \in {"triggered", "cancelled"}]_vars

\* C3: a cycle that finds an alert satisfied issues exactly one update for
\* it (after the trigger update the same cycle writes nothing more for it),
\* and no cycle started after that update evaluates the alert again.
C3_TriggeredNeverEvaluatedAgain ==
  /\ [](\A c \in DOMAIN cycles :
          cycles[c].pc = "update"
            => CurrentAlert(cycles[c]).id \notin cycles[c].trigBefore)
  /\ [][\A c \in DOMAIN cycles :
          (StepBy(c, "lookup") \/ StepBy(c, "send")) => alerts' = alerts]_vars

\* C5: shouldTriggerAlert returns true exactly when above and c >= t, or
\* below and c <= t, or equals and |c - t| <= 0.01, boundaries included.
C5_TriggerIffConditionMet ==
  probe.done =>
    (probe.out <=>
       \/ probe.cond = "above" /\ probe.c >= probe.t
       \/ probe.cond = "below" /\ probe.c <= probe.t
       \/ probe.cond = "equals" /\ AbsDiff(probe.c, probe.t) <= 1)

\* C4: a cycle loads only alerts whose stored status is active, and it
\* evaluates, updates and notifies only alerts it loaded: an alert that is
\* triggered or cancelled when a cycle loads is left alone by that cycle.
C4_OnlyActiveAlertsChecked ==
  /\ [](\A c \in DOMAIN cycles : \A g \in DOMAIN cycles[c].groups :
          \A i \in DOMAIN cycles[c].groups[g].alerts :
            cycles[c].groups[g].alerts[i].status = "active")
  /\ [][\A c \in DOMAIN cycles :
          /\ StepBy(c, "load") =>
               \A a \in LoadedIds(cycles'[c]) :
                 a \in DOMAIN alerts /\ alerts[a].status = "active"
          /\ last'.c = c =>
               /\ \A a \in DOMAIN alerts :
                    alerts'[a] # alerts[a] => a \in LoadedIds(cycles[c])
               /\ (notified' \ notified) \subseteq LoadedIds(cycles[c])
               /\ cycles'[c].pc = "update" =>
                    CurrentAlert(cycles'[c]).id \in LoadedIds(cycles'[c])]_vars

\* C4 happens: an alert is triggered, and a cycle started afterwards is
\* checking another alert of the same market at a price that satisfies the
\* triggered alert, which it has not loaded
C4_Witness ==
  \E c \in DOMAIN cycles : \E a \in DOMAIN alerts :
    /\ alerts[a].status = "triggered"
    /\ a \in cycles[c].trigBefore
    /\ cycles[c].pc = "update"
    /\ CurrentAlert(cycles[c]).market_id = alerts[a].market_id
    /\ shouldTriggerAlert(alerts[a], cycles[c].price)
    /\ a \notin LoadedIds(cycles[c])

\* C6: when the oracle returns null for a market, the cycle changes no alert
\* and sends nothing in that step, never comes back to that group (groups
\* have distinct markets and are visited in order, and a cycle writes only
\* the alert it is at), and goes on with the next group.
C6_NotFoundSkipsGroup ==
  /\ [](\A c \in DOMAIN cycles : \A g, h \in DOMAIN cycles[c].groups :
          /\ g # h => cycles[c].groups[g].market_id # cycles[c].groups[h].market_id
          /\ \A i \in DOMAIN cycles[c].groups[g].alerts :
               cycles[c].groups[g].alerts[i].market_id = cycles[c].groups[g].market_id)
  /\ [][\A c \in DOMAIN cycles :
          /\ (StepBy(c, "fetch") /\ ~last'.ok) =>
               /\ alerts' = alerts
               /\ notified' = notified
               /\ everTriggered' = everTriggered
               /\ IF cycles[c].gi < Len(cycles[c].groups)
                  THEN /\ cycles'[c].pc = "fetch"
                       /\ cycles'[c].gi = cycles[c].gi + 1
                       /\ cycles'[c].groups = cycles[c].groups
                  ELSE cycles'[c].pc = "idle"
          /\ (last'.c = c /\ cycles[c].pc \notin {"idle", "load"}
                /\ cycles'[c].pc # "idle") =>
               /\ cycles'[c].gi >= cycles[c].gi
               /\ cycles'[c].groups = cycles[c].groups
          /\ (last'.c = c /\ (alerts' # alerts \/ notified' # notified)) =>
               /\ cycles[c].pc \in {"update", "lookup"}
               /\ \A a \in DOMAIN alerts :
                    alerts'[a] # alerts[a] => a = CurrentAlert(cycles[c]).id
               /\ (notified' \ notified) \subseteq {CurrentAlert(cycles[c]).id}]_vars

\* C6 happens: the first market of a cycle was not found, its alerts are
\* untouched, and the cycle is fetching the second market
C6_Witness ==
  /\ last.op = "fetch" /\ ~last.ok
  /\ \E c \in DOMAIN cycles :
       /\ last.c = c
       /\ cycles[c].pc = "fetch" /\ cycles[c].gi = 2
       /\ \A i \in DOMAIN cycles[c].groups[1].alerts :
            LET a == cycles[c].groups[1].alerts[i].id IN
            /\ a \in DOMAIN alerts
            /\ alerts[a].status = "active"
            /\ alerts[a].last_checked_at = 0
            /\ a \notin notified

\* C7: when sendPriceAlert fails, nothing is written to the store (a
\* triggered alert stays triggered, with triggered_at and notification_sent
\* as they are), the cycle goes on to the next alert without sending again,
\* and no later cycle loads an alert whose stored status is triggered.
C7_SendFailureChangesNothing ==
  [][\A c \in DOMAIN cycles :
       /\ (StepBy(c, "send") /\ ~last'.ok) =>
            /\ alerts' = alerts
            /\ notified' = notified
            /\ MovesOn(c)
       /\ StepBy(c, "load") =>
            \A a \in LoadedIds(cycles'[c]) : alerts[a].status # "triggered"]_vars

\* C7 happens: the send for a triggered alert has just failed, the alert is
\* still triggered and the cycle has gone on
C7_Witness ==
  /\ last.op = "send" /\ ~last.ok
  /\ last.id \in DOMAIN alerts
  /\ alerts[last.id].status = "triggered"
  /\ alerts[last.id].triggered_at > 0
  /\ alerts[last.id].notification_sent
  /\ cycles[last.c].pc # "notify"

\* C8: when the owner lookup yields no verified address (no row, no email,
\* or an unverified email), the trigger update has already been issued, the
\* Notifier is not invoked, the store is not touched and the cycle goes on
\* as usual; the trigger update itself sets the status whoever the owner is.
C8_NoVerifiedAddressNoNotifier ==
  [][\A c \in DOMAIN cycles :
       /\ (StepBy(c, "lookup") /\ ~last'.ok) =>
            /\ CurrentAlert(cycles[c]).id \in everTriggered
            /\ alerts' = alerts
            /\ notified' = notified
            /\ MovesOn(c)
       /\ (StepBy(c, "update") /\ last'.trig /\ last'.ok) =>
            alerts'[last'.id].status = "triggered"]_vars

\* C8 happens: the owner's email is not verified, the alert is triggered in
\* the store, and the Notifier was not invoked for it
C8_Witness ==
  /\ last.op = "lookup" /\ ~last.ok
  /\ last.id \in DOMAIN alerts
  /\ users[alerts[last.id].user_wallet] = "unverified"
  /\ alerts[last.id].status = "triggered"
  /\ last.id \notin notified

\* C9: when the fetched price does not satisfy an alert's condition, the
\* cycle's write to it sets last_checked_at to the time of the call and
\* changes no other column and no other row, the Notifier is not invoked,
\* and the cycle goes on to the next alert.
C9_NotTriggeredOnlyLastChecked ==
  [][\A c \in DOMAIN cycles :
       (StepBy(c, "update")
          /\ ~shouldTriggerAlert(CurrentAlert(cycles[c]), cycles[c].price)) =>
         LET id == CurrentAlert(cycles[c]).id IN
         /\ cycles[c].ts \in 1..now
         /\ IF last'.ok
            THEN alerts' = [alerts EXCEPT ![id].last_checked_at = cycles[c].ts]
            ELSE alerts' = alerts
         /\ notified' = notified
         /\ everTriggered' = everTriggered
         /\ MovesOn(c)]_vars

\* C9 happens: an alert has just been checked and not triggered
C9_Witness ==
  /\ last.op = "update" /\ ~last.trig /\ last.ok
  /\ last.id \in DOMAIN alerts
  /\ alerts[last.id].status = "active"
  /\ alerts[last.id].last_checked_at = now
  /\ alerts[last.id].triggered_at = 0
  /\ ~alerts[last.id].notification_sent
  /\ last.id \notin notified

\* C10: when the fetched price satisfies an alert's condition, one update
\* sets status = triggered, triggered_at and last_checked_at = the time of
\* the call and notification_sent = true, and nothing else; the owner lookup
\* and the send that follow write nothing, so the flag is true whatever
\* becomes of the notification.
C10_TriggerUpdateSetsFourColumns ==
  [][\A c \in DOMAIN cycles :
       /\ (StepBy(c, "update")
             /\ shouldTriggerAlert(CurrentAlert(cycles[c]), cycles[c].price)) =>
            LET id == CurrentAlert(cycles[c]).id
                ts == cycles[c].ts
            IN  /\ ts \in 1..now
                /\ IF last'.ok
                   THEN alerts' = [alerts EXCEPT ![id] =
                          [@ EXCEPT !.status = "triggered",
                                    !.triggered_at = ts,
                                    !.last_checked_at = ts,
                                    !.notification_sent = TRUE]]
                   ELSE alerts' = alerts
                /\ cycles'[c].pc = "lookup"
       /\ (StepBy(c, "lookup") \/ StepBy(c, "send")) => alerts' = alerts]_vars

\* C10 happens: the trigger update has just been written and the Notifier
\* has not been invoked for the alert
C10_Witness ==
  /\ last.op = "update" /\ last.trig /\ last.ok
  /\ last.id \in DOMAIN alerts
  /\ alerts[last.id].status = "triggered"
  /\ alerts[last.id].triggered_at = now
  /\ alerts[last.id].last_checked_at = now
  /\ alerts[last.id].notification_sent
  /\ last.id \notin notified

\* a cycle that loaded exactly the two alerts above 0.40 and below 0.90 of
\* one market and was told the price 0.50 for it
ScenarioD(cy) ==
  /\ Len(cy.groups) = 1
  /\ Len(cy.groups[1].alerts) = 2
  /\ {<<cy.groups[1].alerts[i].condition, cy.groups[1].alerts[i].target_price>> :
        i \in 1..2} = {<<"above", 40>>, <<"below", 90>>}
  /\ cy.pc \in {"update", "lookup", "notify"}
  /\ cy.price = 50

\* C11 (as stated): in that cycle the alert above 0.40 is triggered, the
\* alert below 0.90 is not, and the oracle is called once.
C11_SecondDoesNotTrigger ==
  \A c \in DOMAIN cycles :
    ScenarioD(cycles[c]) =>
      /\ cycles[c].trig <=> CurrentAlert(cycles[c]).condition = "above"
      /\ cycles[c].fetched = <<cycles[c].groups[1].market_id>>

\* C11 (amended): in that cycle both alerts are triggered (0.50 >= 0.40 and
\* 0.50 <= 0.90), and the oracle is called once.
C11_BothTrigger ==
  \A c \in DOMAIN cycles :
    ScenarioD(cycles[c]) =>
      /\ cycles[c].trig
      /\ cycles[c].fetched = <<cycles[c].groups[1].market_id>>

\* C11 happens: the cycle has triggered both alerts in the store after one
\* oracle call
C11_Witness ==
  \E c \in DOMAIN cycles :
    /\ ScenarioD(cycles[c])
    /\ cycles[c].ai = 2
    /\ cycles[c].pc = "lookup"
    /\ Len(cycles[c].fetched) = 1
    /\ \A a \in LoadedIds(cycles[c]) : alerts[a].status = "triggered"

\* the market ids of the alerts a cycle holds copies of
LoadedMarkets(cy) ==
  UNION {{cy.groups[g].alerts[i].market_id : i \in DOMAIN cy.groups[g].alerts} :
           g \in DOMAIN cy.groups}

\* C12: the getMarketById calls of one cycle are for market ids of loaded
\* alerts, no market id is asked for twice, and so their number is at most
\* the number M of distinct market ids, whatever the number of alerts.
C12_OneOracleCallPerMarket ==
  \A c \in DOMAIN cycles :
    LET f == cycles[c].fetched IN
    /\ \A i \in DOMAIN f : f[i] \in LoadedMarkets(cycles[c])
    /\ \A i, j \in DOMAIN f : i # j => f[i] # f[j]
    /\ Len(f) <= Cardinality(LoadedMarkets(cycles[c]))
    /\ cycles[c].pc \in {"update", "lookup", "notify"} =>
         f[Len(f)] = CurrentAlert(cycles[c]).market_id

\* C12 happens: a cycle is at the second of two alerts of one market after
\* one oracle call
C12_Witness ==
  \E c \in DOMAIN cycles :
    /\ Cardinality(LoadedIds(cycles[c])) = 2
    /\ Cardinality(LoadedMarkets(cycles[c])) = 1
    /\ cycles[c].pc = "update"
    /\ cycles[c].ai = 2
    /\ Len(cycles[c].fetched) = 1

\* the cycles that begin in the step being taken
Begun == {c \in DOMAIN cycles : cycles[c].pc = "idle" /\ cycles'[c].pc = "load"}

\* C13: start() in state stopped sets isRunning, begins exactly one cycle
\* and arms the one interval timer; start() in state running changes
\* nothing; there is never more than one timer.
C13_StartOnceOnly ==
  /\ [](timers <= 1)
  /\ [][last'.op = "start" =>
          IF isRunning
          THEN UNCHANGED <<isRunning, checkInterval, timers, cycles, alerts,
                           notified>>
          ELSE /\ isRunning'
               /\ checkInterval'
               /\ timers = 0 /\ timers' = 1
               /\ Cardinality(Begun) = 1
               /\ \A c \in DOMAIN cycles \ Begun : cycles'[c] = cycles[c]]_vars

\* C13 happens: start() has returned in state running with no cycle at its
\* beginning, so it was called while the checker was running
C13_Witness ==
  /\ last.op = "start"
  /\ isRunning /\ checkInterval /\ timers = 1
  /\ \E c \in DOMAIN cycles : cycles[c].pc \in {"fetch", "update"}
  /\ \A c \in DOMAIN cycles : cycles[c].pc # "load"

\* C14: stop() leaves the checker stopped with no timer and touches no
\* cycle, in state stopped it changes nothing, and while the checker is
\* stopped a cycle begins only by a call of start().
C14_StopHaltsScheduling ==
  [][/\ last'.op = "stop" =>
          /\ ~isRunning' /\ ~checkInterval' /\ timers' = 0
          /\ cycles' = cycles
          /\ ~isRunning => UNCHANGED <<isRunning, checkInterval, timers>>
     /\ (~isRunning /\ Begun # {}) => last'.op = "start"]_vars

\* C14 happens: stop() has returned while a cycle was in flight; the cycle
\* is still there and no timer is left
C14_Witness ==
  /\ last.op = "stop"
  /\ ~isRunning /\ ~checkInterval /\ timers = 0
  /\ \E c \in DOMAIN cycles : cycles[c].pc = "fetch"

\* C15: getStatus().running is true exactly when an interval timer is
\* armed, it is false until the first start() (it becomes true only by
\* start() and false only by stop()), and the interval is 30000.
C15_StatusReflectsTimer ==
  /\ [](/\ getStatus.running <=> timers > 0
        /\ getStatus.running <=> checkInterval
        /\ getStatus.interval = 30000
        /\ last.op = "init" => ~getStatus.running)
  /\ [][/\ (~getStatus.running /\ getStatus.running') => last'.op = "start"
        /\ (getStatus.running /\ ~getStatus.running') => last'.op = "stop"]_vars

\* C15 happens: the status reads running after the timer has fired
C15_Witness ==
  /\ last.op = "timer"
  /\ getStatus.running
  /\ getStatus.interval = POLL_INTERVAL
  /\ timers = 1

\* C16: no step of a cycle, failed or not, changes isRunning or the timer;
\* isRunning is reset only by stop(); and as long as the checker is not
\* stopped the timer begins a new cycle again and again.
C16_FailedCycleKeepsScheduling ==
  /\ [][/\ \A c \in DOMAIN cycles :
             last'.c = c => UNCHANGED <<isRunning, checkInterval, timers>>
        /\ (isRunning /\ ~isRunning') => last'.op = "stop"
        /\ timers' < timers => last'.op = "stop"]_vars
  /\ []<>(~isRunning \/ last.op = "timer")

\* C16 happens: a cycle has loaded active alerts and ended at once on the
\* exception of the grouping, and the checker is running with its timer
C16_Witness ==
  /\ last.op = "load" /\ last.ok
  /\ cycles[last.c].pc = "idle"
  /\ \E a \in DOMAIN alerts : alerts[a].status = "active"
  /\ isRunning /\ checkInterval /\ timers = 1

\* the step being taken is a call returning a failure to cycle c
FailedStep(c) ==
  /\ last'.c = c
  /\ \/ last'.op \in {"load", "fetch", "update", "send"} /\ ~last'.ok
     \/ last'.op = "lookup" /\ cycles'[c].pc # "notify"

\* C17: a cycle goes on to process every active alert it loaded, whatever
\* their market ids, and after a failure for one alert or one group it
\* goes on with the next alert or the next group.
C17_FailureDoesNotStopOthers ==
  [][\A c \in DOMAIN cycles :
       /\ (StepBy(c, "load") /\ last'.ok) =>
            LoadedIds(cycles'[c]) = {a \in DOMAIN alerts : alerts[a].status = "active"}
       /\ (FailedStep(c) /\ last'.op \in {"update", "lookup", "send"}) =>
            /\ cycles'[c].pc # "idle" \/ cycles[c].gi = Len(cycles[c].groups)
            /\ cycles'[c].pc = "fetch" =>
                 cycles[c].ai = Len(CurrentGroup(cycles[c]).alerts)
       /\ (FailedStep(c) /\ last'.op = "fetch") =>
            cycles'[c].pc # "idle" \/ cycles[c].gi = Len(cycles[c].groups)]_vars

\* C18: a store or oracle call that fails during a cycle changes nothing in
\* the store; the alert a failed store call was about is still active, so
\* that the next cycle loads it again; and the Notifier is not invoked a
\* second time for an alert.
C18_TransientFailureRetried ==
  [][\A c \in DOMAIN cycles :
       /\ (FailedStep(c) /\ last'.op \in {"load", "fetch", "update"}) =>
            alerts' = alerts
       /\ (StepBy(c, "lookup") /\ ~last'.ok /\ supabase
             /\ users[CurrentAlert(cycles[c]).user_wallet] = "verified") =>
            \A a \in DOMAIN alerts' :
              a = CurrentAlert(cycles[c]).id => alerts'[a].status = "active"
       /\ (FailedStep(c) /\ last'.op = "update") =>
            \A a \in DOMAIN alerts' :
              a = CurrentAlert(cycles[c]).id =>
                (alerts'[a].status = "active" => cycles'[c].pc # "lookup")]_vars

\* C19: a row inserted by POST /alerts has status active and
\* notification_sent false; it is inserted only for a target price in
\* [0, 1] and a condition among above, below, equals; a request violating
\* either gets an error and inserts nothing; and every stored row has its
\* target price in [0, 1].
C19_CreatedAlertsAreValid ==
  /\ [](\A a \in DOMAIN alerts :
          /\ alerts[a].target_price >= 0 /\ alerts[a].target_price <= 100
          /\ alerts[a].condition \in {"above", "below", "equals"})
  /\ [][last'.op = "post" =>
          /\ \A a \in DOMAIN alerts : a \in DOMAIN alerts' /\ alerts'[a] = alerts[a]
          /\ \A a \in DOMAIN alerts' \ DOMAIN alerts :
               /\ last'.ok /\ last'.id = a
               /\ alerts'[a].status = "active"
               /\ ~alerts'[a].notification_sent
               /\ alerts'[a].triggered_at = 0
          /\ ~last'.ok => alerts' = alerts]_vars

\* C19 happens: a row with a boundary target price is stored, active and
\* not flagged, and the request after it has been refused
C19_Witness ==
  /\ last.op = "post" /\ ~last.ok
  /\ DOMAIN alerts = {1}
  /\ alerts[1].target_price \in {0, 100}
  /\ alerts[1].status = "active"
  /\ ~alerts[1].notification_sent

\* C20: when getActiveAlerts has no client or its query fails, the cycle
\* ends there: no oracle call, no store update, no Notifier call, and the
\* checker and its timer stay as they are.
C20_StoreUnavailableEndsCycle ==
  [][\A c \in DOMAIN cycles :
       (StepBy(c, "load") /\ ~last'.ok) =>
         /\ cycles'[c].pc = "idle"
         /\ cycles'[c].fetched = <<>>
         /\ alerts' = alerts
         /\ notified' = notified
         /\ everTriggered' = everTriggered
         /\ UNCHANGED <<isRunning, checkInterval, timers>>]_vars

\* C20 happens: the query of a cycle has failed while the store holds an
\* active alert never checked; the cycle is over and the checker running
C20_Witness ==
  /\ last.op = "load" /\ ~last.ok
  /\ cycles[last.c].pc = "idle"
  /\ \E a \in DOMAIN alerts :
       alerts[a].status = "active" /\ alerts[a].last_checked_at = 0
  /\ getStatus.running /\ timers = 1

\* C21: at any time at most one check cycle is in flight, and no two cycles
\* are at the same alert (awaiting its update, its owner lookup or its
\* notification) at the same time
InFlight == {c \in DOMAIN cycles : cycles[c].pc # "idle"}

AtAlert(c) ==
  IF cycles[c].pc \in {"update", "lookup", "notify"}
  THEN {CurrentAlert(cycles[c]).id}
  ELSE {}

C21_AtMostOneCycleInFlight ==
  /\ Cardinality(InFlight) <= 1
  /\ \A c, d \in DOMAIN cycles : c # d => AtAlert(c) \cap AtAlert(d) = {}

\* C22: for a triggered alert the status update is issued and has returned
\* before the owner lookup begins, and the Notifier is called only after
\* that lookup: a cycle enters the lookup of an alert only by the return of
\* its own triggering update of that alert, and enters the Notifier call
\* only by the return of that lookup
SameAlert(c) ==
  cycles'[c].gi = cycles[c].gi /\ cycles'[c].ai = cycles[c].ai

C22_UpdateBeforeLookupAndNotifier ==
  /\ [][\A c \in DOMAIN cycles :
          cycles'[c].pc = "lookup" /\ cycles[c] # cycles'[c] =>
            /\ cycles[c].pc = "update" /\ cycles[c].trig
            /\ StepBy(c, "update") /\ last'.trig
            /\ last'.id = CurrentAlert(cycles'[c]).id
            /\ SameAlert(c)]_vars
  /\ [][\A c \in DOMAIN cycles :
          cycles'[c].pc = "notify" /\ cycles[c] # cycles'[c] =>
            /\ cycles[c].pc = "lookup"
            /\ StepBy(c, "lookup")
            /\ last'.id = CurrentAlert(cycles'[c]).id
            /\ SameAlert(c)]_vars
  /\ [](\A c \in DOMAIN cycles :
          cycles[c].pc \in {"lookup", "notify"} =>
            /\ cycles[c].trig
            /\ CurrentAlert(cycles[c]).id \in everTriggered)

\* the Notifier is being called for an alert whose row already carries the
\* triggering update
C22_Witness ==
  \E c \in DOMAIN cycles :
    /\ cycles[c].pc = "notify"
    /\ CurrentAlert(cycles[c]).id \in DOMAIN alerts
    /\ alerts[CurrentAlert(cycles[c]).id].status = "triggered"
    /\ alerts[CurrentAlert(cycles[c]).id].triggered_at = cycles[c].ts

\* C23: within a cycle every alert of a group is evaluated against the one
\* price read by the single oracle call made for that group, the same price
\* is handed to the Notifier, and no further oracle call is made while the
\* group is being worked on
InGroup(cy) == cy.pc \in {"update", "lookup", "notify"}

C23_OnePricePerGroup ==
  /\ [](\A c \in DOMAIN cycles :
          InGroup(cycles[c]) =>
            /\ Len(cycles[c].fetched) = cycles[c].gi
            /\ cycles[c].fetched[cycles[c].gi] = CurrentGroup(cycles[c]).market_id
            /\ cycles[c].trig =
                 shouldTriggerAlert(CurrentAlert(cycles[c]), cycles[c].price)
            /\ cycles[c].pc = "notify" => cycles[c].sent = cycles[c].price)
  /\ [][\A c \in DOMAIN cycles :
          InGroup(cycles[c]) /\ InGroup(cycles'[c]) =>
            /\ cycles'[c].gi = cycles[c].gi
            /\ cycles'[c].price = cycles[c].price
            /\ cycles'[c].fetched = cycles[c].fetched]_vars

\* the Notifier is being called for the second alert of a group, with the
\* price the group's oracle call returned, which is not the alert's target
C23_Witness ==
  \E c \in DOMAIN cycles :
    /\ cycles[c].pc = "notify"
    /\ cycles[c].ai = 2
    /\ cycles[c].sent = cycles[c].price
    /\ cycles[c].sent # CurrentAlert(cycles[c]).target_price
    /\ Len(cycles[c].fetched) = 1

\* C24: stop() does not abort a cycle in flight: stop() itself leaves every
\* cycle where it is, and a cycle goes through its groups and alerts in
\* order whatever isRunning is, ending only after the last group; so its
\* updates and notifications can come after stop() has returned
LastOfGroup(cy) ==
  cy.pc = "fetch" \/ cy.ai = Len(CurrentGroup(cy).alerts)

C24_StopDoesNotAbortCycle ==
  [][/\ last'.op = "stop" => cycles' = cycles
     /\ \A c \in DOMAIN cycles :
          cycles[c].pc \notin {"idle", "load"} /\ cycles'[c] # cycles[c] =>
            /\ last'.c = c
            /\ cycles'[c].pc = "idle" =>
                 cycles[c].gi = Len(cycles[c].groups) /\ LastOfGroup(cycles[c])
            /\ cycles'[c].pc # "idle" =>
                 /\ cycles'[c].groups = cycles[c].groups
                 /\ \/ /\ cycles'[c].gi = cycles[c].gi
                       /\ cycles'[c].ai \in {cycles[c].ai, cycles[c].ai + 1}
                    \/ /\ cycles'[c].gi = cycles[c].gi + 1
                       /\ cycles'[c].pc = "fetch"
                       /\ LastOfGroup(cycles[c])]_vars

\* after stop() has returned, a cycle that was in flight has got the owner
\* of a triggered alert and is calling the Notifier
C24_Witness ==
  /\ ~isRunning /\ ~checkInterval /\ timers = 0
  /\ last.op = "lookup" /\ last.ok
  /\ \E c \in DOMAIN cycles :
       /\ cycles[c].pc = "notify"
       /\ CurrentAlert(cycles[c]).id = last.id
       /\ last.id \in DOMAIN alerts
       /\ alerts[last.id].status = "triggered"

\* C25: for every list of alerts, whatever the market ids, the call of
\* groupAlertsByMarket returns groups in which every alert of the list is
\* found exactly once, in the group keyed by its market_id, with no empty
\* group
Occurrences(groups, a) ==
  {<<g, i>> \in (DOMAIN groups) \X (1..MaxListLen) :
     i \in DOMAIN groups[g].alerts /\ groups[g].alerts[i] = a}

C25_GroupsPartitionInput ==
  probe.done =>
    /\ ~probe.threw
    /\ \A k \in DOMAIN probe.list :
         /\ Cardinality(Occurrences(probe.groups, probe.list[k])) = 1
         /\ \A o \in Occurrences(probe.groups, probe.list[k]) :
              probe.groups[o[1]].market_id = probe.list[k].market_id
    /\ \A g \in DOMAIN probe.groups :
         /\ Len(probe.groups[g].alerts) > 0
         /\ \A i \in DOMAIN probe.groups[g].alerts :
              \E k \in DOMAIN probe.list :
                probe.groups[g].alerts[i] = probe.list[k]
    /\ \A g, h \in DOMAIN probe.groups :
         g # h => probe.groups[g].market_id # probe.groups[h].market_id

\* C26: an alert whose condition is none of above, below and equals does
\* not trigger, whatever its target and the current price: the evaluation
\* returns false, so the cycle takes the not-triggered path for it
C26_UnknownConditionNeverTriggers ==
  (probe.done /\ probe.cond \notin {"above", "below", "equals"}) => ~probe.out

\* an alert with an unknown condition was evaluated at a price equal to its
\* target, where each of the three known conditions is satisfied
C26_Witness ==
  /\ probe.done
  /\ probe.cond = "over"
  /\ probe.c = probe.t
  /\ ~probe.out

\* C27: whenever the Notifier is called for an alert, the store holds at
\* that moment a row for that alert whose status is triggered
C27_NotifiedAlertIsStoredTriggered ==
  [][\A c \in DOMAIN cycles :
       (cycles[c].pc = "lookup" /\ cycles'[c].pc = "notify") =>
         /\ CurrentAlert(cycles'[c]).id \in DOMAIN alerts'
         /\ alerts'[CurrentAlert(cycles'[c]).id].status = "triggered"]_vars

\* C28: while the checker runs and the calls to the store and the oracle
\* succeed, an active alert whose condition is satisfied at every price the
\* oracle reports is eventually stored as triggered: from any state where
\* such an alert is active and the checker runs, a state follows where the
\* alert is triggered, or the checker has been stopped, or a call to the
\* store or the oracle has failed
AlwaysSatisfied(row) ==
  \A reply \in OracleReplies :
    MarketFound(reply) => shouldTriggerAlert(row, transformMarket(reply))

CallFailed == last.op \in {"load", "fetch", "update"} /\ ~last.ok

C28_SatisfiedAlertEventuallyTriggered ==
  \A a \in AlertIds :
    [](( /\ a \in DOMAIN alerts
         /\ alerts[a].status = "active"
         /\ AlwaysSatisfied(alerts[a])
         /\ isRunning )
       => <>( \/ a \in DOMAIN alerts /\ alerts[a].status = "triggered"
              \/ ~isRunning
              \/ CallFailed ))

\* C29: a wallet's email is marked verified only if a token that was
\* issued for that wallet together with that very address has been
\* presented to the verification route
C29_VerifiedOnlyByOwnToken ==
  \A w \in Wallets :
    (users[w].row /\ users[w].email_verified) =>
      \E n \in DOMAIN tokens :
        /\ tokens[n].wallet = w
        /\ tokens[n].email = users[w].email
        /\ tokens[n].presented

\* C30 as stated: when the market the oracle returned has no first outcome
\* price, or a zero one, its alerts are evaluated against 0.5
ZeroOrMissing(reply) == reply.kind = "none" \/ reply.value = 0

NoFirstPrice(reply) ==
  reply.kind = "none" \/ (reply.kind = "number" /\ reply.value = 0)

=============================================================================
